---------------------------- MODULE Spec2Model ----------------------------
(***************************************************************************)
(* Model of process_growth_data.py (OD600 Transformer): the plate-reader   *)
(* export parser (text path and spreadsheet path), the condition merge,    *)
(* and the control flow of main.                                           *)
(*                                                                         *)
(* Text is modelled at character level: a line or a cell is a sequence of  *)
(* one-character strings, so that strip, split, startswith, the regular    *)
(* expressions and float() are computed as the code computes them.         *)
(* Floats are modelled as exact rationals [n, d] in lowest terms; the      *)
(* record with d = 0 stands for None / a failed conversion.  The token     *)
(* alphabet is digits, '.', '-', letters and whitespace (no exponent,      *)
(* 'nan' or 'inf' forms).                                                  *)
(*                                                                         *)
(* Observations carry two history fields, src_row and src_col (and         *)
(* src_sheet in the spreadsheet path), that record where the OD was read;  *)
(* the code's dictionaries hold only Well, Time_s, Time_h and OD, and      *)
(* DataFrame() drops the history fields.                                   *)
(***************************************************************************)
EXTENDS Integers, Sequences, FiniteSets, TLC

\* ------------------------------------------------------------------ bounds

\* Longest enumerated text input, in lines.
MaxLines == 3

\* Longest enumerated sheet, in rows.
MaxXRows == 3

\* Longest enumerated observation table given to the merge directly.
MaxObs == 2

\* Longest enumerated mapping, in rows.
MaxMapRows == 2

\* ------------------------------------------------------ program constants

\* parts[1:13]
TextColEnd == 13

\* range(start_idx, min(start_idx + 10, df.shape[0]))
SearchWindow == 10

\* range(data_start_idx, min(data_start_idx + 8, df.shape[0]))
GridRows == 8

\* range(1, min(13, df.shape[1]))
ExcelColEnd == 13

\* ------------------------------------------------------- character helpers

Whitespace == {" ", "\n", "\t"}

Digits == {"0", "1", "2", "3", "4", "5", "6", "7", "8", "9"}

RowLetters == {"A", "B", "C", "D", "E", "F", "G", "H"}

\* The literal 'Time [s]'.
TimeLabel == <<"T", "i", "m", "e", " ", "[", "s", "]">>

Min(a, b) == IF a < b THEN a ELSE b

RECURSIVE LStrip(_)
LStrip(s) ==
    IF s = <<>> THEN s
    ELSE IF Head(s) \in Whitespace THEN LStrip(Tail(s)) ELSE s

RECURSIVE RStrip(_)
RStrip(s) ==
    IF s = <<>> THEN s
    ELSE IF s[Len(s)] \in Whitespace THEN RStrip(SubSeq(s, 1, Len(s) - 1)) ELSE s

\* str.strip()
Strip(s) == RStrip(LStrip(s))

\* str.isspace(): non-empty and all whitespace
IsSpace(s) == s # <<>> /\ \A k \in 1..Len(s) : s[k] \in Whitespace

RECURSIVE SplitAcc(_, _, _)
SplitAcc(s, cur, acc) ==
    IF s = <<>> THEN Append(acc, cur)
    ELSE IF Head(s) = "," THEN SplitAcc(Tail(s), <<>>, Append(acc, cur))
    ELSE SplitAcc(Tail(s), Append(cur, Head(s)), acc)

\* str.split(',')
Split(s) == SplitAcc(s, <<>>, <<>>)

\* str.startswith(p)
StartsWith(s, p) == Len(s) >= Len(p) /\ SubSeq(s, 1, Len(p)) = p

\* p in s (substring)
Contains(s, p) ==
    \E k \in 0..(Len(s) - Len(p)) : SubSeq(s, k + 1, k + Len(p)) = p

\* ----------------------------------------------------------------- floats

None == [n |-> 0, d |-> 0]

RECURSIVE GCD(_, _)
GCD(a, b) == IF b = 0 THEN a ELSE GCD(b, a % b)

Abs(x) == IF x < 0 THEN -x ELSE x

\* The rational n/d (d > 0) in lowest terms.
Rat(n, d) == LET g == GCD(Abs(n), d) IN [n |-> n \div g, d |-> d \div g]

\* a / b for b # 0
RatDiv(a, b) ==
    IF b.n < 0 THEN Rat(-(a.n * b.d), a.d * (-b.n)) ELSE Rat(a.n * b.d, a.d * b.n)

RatMul(a, b) == Rat(a.n * b.n, a.d * b.d)

DigitVal(c) ==
    CASE c = "0" -> 0 [] c = "1" -> 1 [] c = "2" -> 2 [] c = "3" -> 3
      [] c = "4" -> 4 [] c = "5" -> 5 [] c = "6" -> 6 [] c = "7" -> 7
      [] c = "8" -> 8 [] c = "9" -> 9

RECURSIVE DigitsValue(_, _)
DigitsValue(s, acc) ==
    IF s = <<>> THEN acc ELSE DigitsValue(Tail(s), 10 * acc + DigitVal(Head(s)))

RECURSIVE Pow10(_)
Pow10(k) == IF k = 0 THEN 1 ELSE 10 * Pow10(k - 1)

\* An unsigned decimal literal: digits with at most one '.', at least one digit.
UnsignedFloat(s) ==
    LET dots == {k \in 1..Len(s) : s[k] = "."}
        dot  == IF dots = {} THEN Len(s) + 1 ELSE CHOOSE k \in dots : TRUE
        ip   == SubSeq(s, 1, dot - 1)
        fp   == SubSeq(s, dot + 1, Len(s))
    IN  IF /\ Cardinality(dots) <= 1
           /\ Len(ip) + Len(fp) >= 1
           /\ \A k \in 1..Len(s) : s[k] \in Digits \cup {"."}
        THEN Rat(DigitsValue(ip \o fp, 0), Pow10(Len(fp)))
        ELSE None

\* float(token): the value, or None where Python raises ValueError.
ParseFloat(token) ==
    LET s == Strip(token)
    IN  IF s = <<>> THEN None
        ELSE IF Head(s) = "-"
             THEN LET v == UnsignedFloat(Tail(s))
                  IN  IF v = None THEN None ELSE [n |-> -v.n, d |-> v.d]
             ELSE UnsignedFloat(s)

\* str(n) of a positive integer, as in f"{col_idx}"
DigitChar(k) ==
    CASE k = 0 -> "0" [] k = 1 -> "1" [] k = 2 -> "2" [] k = 3 -> "3"
      [] k = 4 -> "4" [] k = 5 -> "5" [] k = 6 -> "6" [] k = 7 -> "7"
      [] k = 8 -> "8" [] k = 9 -> "9"

RECURSIVE IntToStr(_)
IntToStr(k) ==
    IF k < 10 THEN <<DigitChar(k)>> ELSE Append(IntToStr(k \div 10), DigitChar(k % 10))


\* ------------------------------------------------------------- text inputs

Nl == <<"\n">>

LineT0      == TimeLabel \o <<",", "0">> \o Nl
LineT3600   == TimeLabel \o <<",", "3", "6", "0", "0">> \o Nl
LineTBlank  == TimeLabel \o <<",">> \o Nl
LineTBad    == TimeLabel \o <<",", "a", "b", "c">> \o Nl
LineTBare   == TimeLabel \o Nl
LineA       == <<"A", ",", "0", ".", "1", ",", "0", ".", "2">> \o Nl
LineB       == <<"B", ",", "0", ".", "3", ",">> \o Nl
LineA2      == <<"A", ",", "0", ".", "1", "5", ",", "0", ".", "2", "5">> \o Nl
LineSpA     == <<" ", "A", ",", "0", ".", "1">> \o Nl
LineASp     == <<"A", " ", ",", "0", ".", "1">> \o Nl
LineI       == <<"I", ",", "0", ".", "5">> \o Nl
\* a data row with 13 value cells
LineWide    ==
    <<"H", ",", "1", ",", "2", ",", "3", ",", "4", ",", "5", ",", "6", ",", "7",
      ",", "8", ",", "9", ",", "1", ",", "2", ",", "3", ",", "4">> \o Nl

LinePool ==
    {LineT0, LineT3600, LineTBlank, LineTBad, LineA, LineB, LineSpA, LineASp, LineI}

\* The two-block scenario of the specification's section 8.
LineBB == <<"B", ",", "0", ".", "3", ",", "0", ".", "4">>

\* Two cycles at 0 s and 3600 s with the same four populated wells.
EightFile == <<LineT0, LineA, LineBB, LineT3600, LineA, LineBB>>

\* Two cycles with the same time and the same wells.
SameTimeFile == <<LineT0, LineA, LineT0, LineA>>

ScenarioFile == <<LineT0, LineA, LineB, LineT3600, LineA2>>

WideFile == <<LineT0, LineWide>>

BareFile == <<LineT0, LineA, LineTBare, LineB>>

RECURSIVE SeqsUpTo(_, _)
SeqsUpTo(S, k) ==
    IF k = 0 THEN {<<>>}
    ELSE LET shorter == SeqsUpTo(S, k - 1)
         IN  shorter \cup {Append(q, x) : q \in {r \in shorter : Len(r) = k - 1}, x \in S}

TextInputs ==
    SeqsUpTo(LinePool, MaxLines)
      \cup {ScenarioFile, WideFile, BareFile, EightFile, SameTimeFile}

\* ------------------------------------------------------------------- state

VARIABLES
    pc,                 \* position in main / the parser
    kind,               \* extension of the input file: "csv", "excel", "other"
    map_file,           \* the --map file: [some, df]; some = FALSE when not given
    mapping_df,         \* load_mapping's result: [some, df]; some = FALSE is None
    unmapped,           \* the wells of the last unmapped-wells warning
    lines,              \* text input: f.readlines()
    sheets,             \* spreadsheet input: one grid of cells per sheet
    sheet_idx,          \* index of the next sheet (1-based)
    time_values,        \* result of extract_time_values
    i,                  \* index of the next line of the scan loop (1-based)
    all_data,           \* observations extracted so far
    cycle_count,
    current_cycle_data, \* block accumulator: <<[idx, line], ...>>
    current_time,       \* time of the open block, or None
    data_df,            \* the table: [columns, rows]
    output              \* what to_csv wrote: <<>> (nothing) or <<data_df>>

vars == <<pc, kind, map_file, mapping_df, unmapped, lines, sheets, sheet_idx,
          time_values, i, all_data, cycle_count,
          current_cycle_data, current_time, data_df, output>>

\* ------------------------------------------------------- process_cycle_data

\* re.match(r'^[A-H]$', s): '$' also matches before a final newline
MatchRowId(s) ==
    /\ Len(s) \in {1, 2}
    /\ s[1] \in RowLetters
    /\ Len(s) = 2 => s[2] = "\n"

\* Variant: the time is converted to minutes.
time_h_minutes(time_value) == RatDiv(time_value, Rat(60, 1))

\* time_value / 3600.0
time_h(time_value) == RatDiv(time_value, Rat(3600, 1))

\* The observations of the cells of one row, from column col_idx on.
RECURSIVE CellObservations(_, _, _, _, _)
CellObservations(cells, col_idx, row_id, time_value, idx) ==
    IF cells = <<>> THEN <<>>
    ELSE LET od_value == Head(cells)
             rest == CellObservations(Tail(cells), col_idx + 1, row_id, time_value, idx)
             od == ParseFloat(od_value)
         IN  IF od_value = <<>> \/ IsSpace(od_value) THEN rest
             ELSE IF od = None THEN rest
             ELSE <<[Well    |-> row_id \o IntToStr(col_idx),
                     Time_s  |-> time_value,
                     Time_h  |-> time_h(time_value),
                     OD      |-> od,
                     src_sheet |-> 0,
                     src_row |-> idx,
                     src_col |-> col_idx]>> \o rest

\* Variant: every cell after the row letter is read, not only twelve.
RowObservationsUncapped(row, time_value) ==
    LET parts  == Split(Strip(row.line))
        row_id == parts[1]
    IN  IF ~MatchRowId(row_id) THEN <<>>
        ELSE CellObservations(Tail(parts), 1, row_id, time_value, row.idx)

\* Variant: a token float() rejects ends the row; the cells after it are lost.
RowObservationsStopAtError(row, time_value) ==
    LET parts  == Split(Strip(row.line))
        row_id == parts[1]
        cells  == SubSeq(parts, 2, Min(TextColEnd, Len(parts)))
        bad    == {k \in 1..Len(cells) :
                      /\ cells[k] # <<>> /\ ~IsSpace(cells[k])
                      /\ ParseFloat(cells[k]) = None}
        stop   == IF bad = {} THEN Len(cells)
                  ELSE (CHOOSE k \in bad : \A q \in bad : k <= q) - 1
    IN  IF ~MatchRowId(row_id) THEN <<>>
        ELSE CellObservations(SubSeq(cells, 1, stop), 1, row_id, time_value, row.idx)

RowObservations(row, time_value) ==
    LET parts  == Split(Strip(row.line))
        row_id == parts[1]
    IN  IF ~MatchRowId(row_id) THEN <<>>
        ELSE CellObservations(SubSeq(parts, 2, Min(TextColEnd, Len(parts))), 1,
                              row_id, time_value, row.idx)

RECURSIVE ProcessCycleData(_, _)
ProcessCycleData(data_rows, time_value) ==
    IF data_rows = <<>> THEN <<>>
    ELSE RowObservations(Head(data_rows), time_value)
           \o ProcessCycleData(Tail(data_rows), time_value)

\* ------------------------------------------------------ extract_time_values

IsTimeLine(line) == StartsWith(line, TimeLabel)

\* len(parts) > 1 and parts[1].strip()
HasTimeCell(line) ==
    LET parts == Split(Strip(line))
    IN  Len(parts) > 1 /\ Strip(parts[2]) # <<>>

LineTime(line) == ParseFloat(Strip(Split(Strip(line))[2]))

\* The parseable times of the time lines among ls, in order.
RECURSIVE TimesOf(_)
TimesOf(ls) ==
    IF ls = <<>> THEN <<>>
    ELSE LET line == Head(ls)
         IN  IF IsTimeLine(line) /\ HasTimeCell(line) /\ LineTime(line) # None
             THEN <<LineTime(line)>> \o TimesOf(Tail(ls))
             ELSE TimesOf(Tail(ls))

ExtractTimeValuesOp(ls) ==
    LET marks == {k \in 1..Len(ls) : IsTimeLine(ls[k])}
    IN  IF marks = {} THEN <<>>
        ELSE LET first == CHOOSE k \in marks : \A m \in marks : k <= m
                 head  == TimesOf(<<ls[first]>>)
             IN  IF head # <<>> THEN head
                 ELSE TimesOf(SubSeq(ls, first, Len(ls)))

\* --------------------------------------------------------- process_csv_data

\* re.match(r'^[A-H],', line)
MatchDataRow(line) == Len(line) >= 2 /\ line[1] \in RowLetters /\ line[2] = ","

ScanInit ==
    [all_data |-> <<>>, cycle_count |-> 0, current_cycle_data |-> <<>>,
     current_time |-> None]

\* Variant: an observation whose (Well, Time_s) is already in the table is
\* dropped when the block is closed.
FlushDedup(st) ==
    IF st.current_cycle_data # <<>> /\ st.current_time # None
    THEN LET new == ProcessCycleData(st.current_cycle_data, st.current_time)
             Fresh(o) == \A k \in 1..Len(st.all_data) :
                             ~(st.all_data[k].Well = o.Well
                                 /\ st.all_data[k].Time_s = o.Time_s)
         IN  [st EXCEPT !.all_data = @ \o SelectSeq(new, Fresh),
                        !.current_cycle_data = <<>>]
    ELSE st

\* Variant: the closed block is put before the earlier ones.
FlushPrepend(st) ==
    IF st.current_cycle_data # <<>> /\ st.current_time # None
    THEN [st EXCEPT !.all_data = ProcessCycleData(st.current_cycle_data,
                                                   st.current_time) \o @,
                    !.current_cycle_data = <<>>]
    ELSE st

\* Close the open block, if it has rows and a time.
Flush(st) ==
    IF st.current_cycle_data # <<>> /\ st.current_time # None
    THEN [st EXCEPT !.all_data = @ \o ProcessCycleData(st.current_cycle_data,
                                                        st.current_time),
                    !.current_cycle_data = <<>>]
    ELSE st

\* The new time of a time line whose second cell is non-blank.
MarkerTime(st, line) ==
    LET t == LineTime(line)
    IN  IF t # None
        THEN [st EXCEPT !.current_time = t, !.cycle_count = @ + 1]
        ELSE [st EXCEPT !.current_time = None]

\* Variant: a data row is accumulated whether or not a time is held.
CsvStepNoTimeCheck(st, idx, line) ==
    IF IsTimeLine(line)
    THEN IF HasTimeCell(line) THEN MarkerTime(Flush(st), line) ELSE Flush(st)
    ELSE IF MatchDataRow(line)
         THEN [st EXCEPT !.current_cycle_data = Append(@, [idx |-> idx, line |-> line])]
         ELSE st

\* One iteration of the scan loop, on line number idx.
CsvStep(st, idx, line) ==
    IF IsTimeLine(line)
    THEN IF HasTimeCell(line) THEN MarkerTime(Flush(st), line) ELSE Flush(st)
    ELSE IF MatchDataRow(line)
         THEN IF st.current_time # None
              THEN [st EXCEPT !.current_cycle_data =
                                  Append(@, [idx |-> idx, line |-> line])]
              ELSE st
         ELSE st

RECURSIVE CsvScan(_, _, _)
CsvScan(st, ls, idx) ==
    IF idx > Len(ls) THEN st ELSE CsvScan(CsvStep(st, idx, ls[idx]), ls, idx + 1)

\* pd.DataFrame(all_data): the four columns of the dictionaries
ObsRow(o) == [Well |-> o.Well, Time_s |-> o.Time_s, Time_h |-> o.Time_h, OD |-> o.OD]

DataFrame(obs) ==
    [columns |-> <<"Well", "Time_s", "Time_h", "OD">>,
     rows    |-> [k \in 1..Len(obs) |-> ObsRow(obs[k])]]

EmptyFrame == [columns |-> <<>>, rows |-> <<>>]

\* The whole of process_csv_data as a function of the input:
\* status "exit" is sys.exit(1), "ok" a returned table.
ProcessCsvData(ls) ==
    IF ExtractTimeValuesOp(ls) = <<>>
    THEN [status |-> "exit", all_data |-> <<>>, cycle_count |-> 0]
    ELSE LET st == Flush(CsvScan(ScanInit, ls, 1))
         IN  [status |-> IF st.all_data = <<>> THEN "exit" ELSE "ok",
              all_data |-> st.all_data, cycle_count |-> st.cycle_count]

ScanState ==
    [all_data |-> all_data, cycle_count |-> cycle_count,
     current_cycle_data |-> current_cycle_data, current_time |-> current_time]

SetScanState(st) ==
    /\ all_data' = st.all_data
    /\ cycle_count' = st.cycle_count
    /\ current_cycle_data' = st.current_cycle_data
    /\ current_time' = st.current_time

\* process_csv_data, lines 139-150: read the lines, extract_time_values.
ExtractTimeValues ==
    /\ pc = "process"
    /\ kind = "csv"
    /\ time_values' = ExtractTimeValuesOp(lines)
    /\ pc' = IF time_values' = <<>> THEN "fatal" ELSE "csv_scan"
    /\ i' = 1
    /\ SetScanState(ScanInit)
    /\ UNCHANGED <<kind, map_file, mapping_df, unmapped, lines, sheets, sheet_idx,
                   data_df, output>>

\* One iteration of 'for i, line in enumerate(lines)'.
CsvScanLine ==
    /\ pc = "csv_scan"
    /\ i <= Len(lines)
    /\ SetScanState(CsvStep(ScanState, i, lines[i]))
    /\ i' = i + 1
    /\ UNCHANGED <<pc, kind, map_file, mapping_df, unmapped, lines, sheets, sheet_idx,
                   time_values, data_df, output>>

\* Variant: the empty list is returned instead of ending the run.
CsvFinishNoCheck ==
    /\ pc = "csv_scan"
    /\ i > Len(lines)
    /\ SetScanState(Flush(ScanState))
    /\ pc' = "parsed"
    /\ data_df' = DataFrame(all_data')
    /\ UNCHANGED <<kind, map_file, mapping_df, unmapped, lines, sheets, sheet_idx,
                   time_values, i, output>>

\* After the loop: the last flush, the empty check, the DataFrame.
CsvFinish ==
    /\ pc = "csv_scan"
    /\ i > Len(lines)
    /\ SetScanState(Flush(ScanState))
    /\ IF all_data' = <<>>
       THEN pc' = "fatal" /\ data_df' = data_df
       ELSE pc' = "parsed" /\ data_df' = DataFrame(all_data')
    /\ UNCHANGED <<kind, map_file, mapping_df, unmapped, lines, sheets, sheet_idx,
                   time_values, i, output>>

\* ------------------------------------------------------- spreadsheet inputs

\* A cell of pd.read_excel(header=None): NaN, a string or a number.
NaNCell == [k |-> "nan", s |-> <<>>, v |-> None]

StrCell(s) == [k |-> "str", s |-> s, v |-> None]

NumCell(n, d) == [k |-> "num", s |-> <<>>, v |-> Rat(n, d)]

XT0     == <<StrCell(TimeLabel), NumCell(0, 1), NaNCell>>
XT3600  == <<StrCell(<<"#", " ">> \o TimeLabel), NumCell(3600, 1), NaNCell>>
XTBlank == <<StrCell(TimeLabel), NaNCell, NaNCell>>
XTBad   == <<StrCell(TimeLabel), StrCell(<<"a", "b", "c">>), NaNCell>>
XA      == <<StrCell(<<"A">>), NumCell(1, 10), StrCell(<<"0", ".", "2">>)>>
XB      == <<StrCell(<<" ", "B", " ">>), NumCell(3, 10), NaNCell>>
XLabel  == <<StrCell(<<"<", ">">>), NaNCell, StrCell(<<"x">>)>>

XRowPool == {XT0, XT3600, XTBlank, XTBad, XA, XB, XLabel}

XData(c) == <<StrCell(<<c>>), NumCell(1, 2), NaNCell>>

\* A grid with 14 value columns.
WideSheet ==
    <<XT0 \o [k \in 1..12 |-> NaNCell],
      <<StrCell(<<"H">>)>> \o [k \in 1..14 |-> NumCell(k, 1)]>>

\* The first data row lies 10 rows after the marker.
GapSheet == <<XT0>> \o [k \in 1..10 |-> XLabel] \o <<XA>>

\* Nine data rows after one marker.
TallSheet ==
    <<XT0, XData("A"), XData("B"), XData("C"), XData("D"), XData("E"),
      XData("F"), XData("G"), XData("H"), XData("A")>>

SheetPool == SeqsUpTo(XRowPool, MaxXRows) \cup {WideSheet, GapSheet, TallSheet}

SmallSheets == {<<XT0, XA>>, <<XLabel>>, <<XT3600, XB>>}

Workbooks ==
    {<<sh>> : sh \in SheetPool} \cup {<<a, b>> : a \in SmallSheets, b \in SmallSheets}

\* ------------------------------------------------------- process_excel_data

\* df.shape[1]
Width(df) == IF df = <<>> THEN 0 ELSE Len(df[1])

\* float(x) of a cell: None where Python raises ValueError or TypeError
CellFloat(c) ==
    IF c.k = "num" THEN c.v ELSE IF c.k = "str" THEN ParseFloat(c.s) ELSE None

\* isinstance(row[0], str) and 'Time [s]' in row[0]
IsTimeRow(row) == row[1].k = "str" /\ Contains(row[1].s, TimeLabel)

\* len(row) > 1 and pd.notna(row[1]) and float(row[1]) succeeds
HasCellTime(row) ==
    Len(row) > 1 /\ row[2].k # "nan" /\ CellFloat(row[2]) # None

\* cycle_starts: the rows (1-based) of the time markers with a time
CycleStarts(df) ==
    {r \in 1..Len(df) : IsTimeRow(df[r]) /\ HasCellTime(df[r])}

\* isinstance(x, str) and re.match(r'^[A-H]$', x.strip())
IsGridRow(row) == row[1].k = "str" /\ MatchRowId(Strip(row[1].s))

\* The wells of one grid row, from column col_idx to column last.
RECURSIVE GridCells(_, _, _, _, _, _, _)
GridCells(row, col_idx, last, row_id, time_value, sh, r) ==
    IF col_idx > last THEN <<>>
    ELSE LET od_value == row[col_idx + 1]
             rest == GridCells(row, col_idx + 1, last, row_id, time_value, sh, r)
             od == CellFloat(od_value)
         IN  IF od_value.k = "nan" THEN rest
             ELSE IF od = None THEN rest
             ELSE <<[Well    |-> row_id \o IntToStr(col_idx),
                     Time_s  |-> time_value,
                     Time_h  |-> time_h(time_value),
                     OD      |-> od,
                     src_sheet |-> sh,
                     src_row |-> r,
                     src_col |-> col_idx]>> \o rest

\* The rows r..last of the collection window.
RECURSIVE GridRowsFrom(_, _, _, _, _)
GridRowsFrom(df, r, last, time_value, sh) ==
    IF r > last THEN <<>>
    ELSE (IF IsGridRow(df[r])
          THEN GridCells(df[r], 1, Min(ExcelColEnd, Width(df)) - 1,
                         Strip(df[r][1].s), time_value, sh, r)
          ELSE <<>>)
         \o GridRowsFrom(df, r + 1, last, time_value, sh)

\* One cycle: the forward search for the grid, then the collection window.
CycleObservations(df, start, sh) ==
    LET time_value == CellFloat(df[start][2])
        found == {r \in start..Min(start + SearchWindow - 1, Len(df)) : IsGridRow(df[r])}
    IN  IF found = {} THEN <<>>
        ELSE LET data_start == CHOOSE r \in found : \A q \in found : r <= q
             IN  GridRowsFrom(df, data_start, Min(data_start + GridRows - 1, Len(df)),
                              time_value, sh)

\* The cycles whose marker lies at row r or after it, in order.
RECURSIVE CyclesFrom(_, _, _)
CyclesFrom(df, r, sh) ==
    IF r > Len(df) THEN <<>>
    ELSE (IF r \in CycleStarts(df) THEN CycleObservations(df, r, sh) ELSE <<>>)
         \o CyclesFrom(df, r + 1, sh)

\* One sheet: nothing when it has no time point.
SheetObservations(df, sh) ==
    IF CycleStarts(df) = {} THEN <<>> ELSE CyclesFrom(df, 1, sh)

\* Variant: a sheet without time point ends the loop over the sheets.
ExcelSheetStopOnEmpty ==
    /\ pc = "excel_sheets"
    /\ sheet_idx <= Len(sheets)
    /\ all_data' = all_data \o SheetObservations(sheets[sheet_idx], sheet_idx)
    /\ sheet_idx' = IF CycleStarts(sheets[sheet_idx]) = {} THEN Len(sheets) + 1
                    ELSE sheet_idx + 1
    /\ UNCHANGED <<pc, kind, map_file, mapping_df, unmapped, lines, sheets, time_values,
                   i, cycle_count,
                   current_cycle_data, current_time, data_df, output>>

\* One iteration of 'for sheet_name in xl.sheet_names'.
ExcelSheet ==
    /\ pc = "excel_sheets"
    /\ sheet_idx <= Len(sheets)
    /\ all_data' = all_data \o SheetObservations(sheets[sheet_idx], sheet_idx)
    /\ sheet_idx' = sheet_idx + 1
    /\ UNCHANGED <<pc, kind, map_file, mapping_df, unmapped, lines, sheets, time_values,
                   i, cycle_count,
                   current_cycle_data, current_time, data_df, output>>

\* After the sheets: the empty check, the DataFrame.
ExcelFinish ==
    /\ pc = "excel_sheets"
    /\ sheet_idx > Len(sheets)
    /\ IF all_data = <<>>
       THEN pc' = "fatal" /\ data_df' = data_df
       ELSE pc' = "parsed" /\ data_df' = DataFrame(all_data)
    /\ UNCHANGED <<kind, map_file, mapping_df, unmapped, lines, sheets, sheet_idx,
                   time_values, i, all_data,
                   cycle_count, current_cycle_data, current_time, output>>

\* main, lines 372-374: the spreadsheet branch; pd.ExcelFile, all_data = [].
OpenExcel ==
    /\ pc = "process"
    /\ kind = "excel"
    /\ pc' = "excel_sheets"
    /\ sheet_idx' = 1
    /\ all_data' = <<>>
    /\ UNCHANGED <<kind, map_file, mapping_df, unmapped, lines, sheets, time_values, i,
                   cycle_count,
                   current_cycle_data, current_time, data_df, output>>

\* -------------------------------------------------------- mapping inputs

NoFrame == [some |-> FALSE, df |-> EmptyFrame]

SomeFrame(df) == [some |-> TRUE, df |-> df]

\* An absent (NaN) condition.
NaN == "NaN"

WellA1 == <<"A", "1">>
WellA2 == <<"A", "2">>
WellB1 == <<"B", "1">>
WellC1 == <<"C", "1">>

MapEntry(w, c) == [Well |-> w, Condition |-> c]

MapFrame(rows) == [columns |-> <<"Well", "Condition">>, rows |-> rows]

\* Mapping files of main: complete, partial, with an extra column, and the
\* two that lack a required column.
MapFull    == MapFrame(<<MapEntry(WellA1, "ctl"), MapEntry(WellA2, "ctl"),
                         MapEntry(WellB1, "drug")>>)
MapPartial == MapFrame(<<MapEntry(WellB1, "drug"), MapEntry(WellC1, "ctl")>>)
MapExtra   ==
    [columns |-> <<"Well", "Condition", "Notes">>,
     rows    |-> <<[Well |-> WellA1, Condition |-> "ctl", Notes |-> "n"]>>]
MapNoCondition ==
    [columns |-> <<"Well", "Notes">>, rows |-> <<[Well |-> WellA1, Notes |-> "n"]>>]
MapNoWell ==
    [columns |-> <<"Condition">>, rows |-> <<[Condition |-> "ctl"]>>]

MainMapFiles ==
    {NoFrame} \cup {SomeFrame(m) :
                      m \in {MapFull, MapPartial, MapExtra, MapNoCondition, MapNoWell}}

MapEntryPool ==
    {MapEntry(WellA1, "ctl"), MapEntry(WellA1, "drug"), MapEntry(WellB1, "drug"),
     MapEntry(WellC1, "ctl"), MapEntry(WellA2, NaN)}

DirectMappings == {MapFrame(rows) : rows \in SeqsUpTo(MapEntryPool, MaxMapRows)}

\* Observation tables given to the merge directly.
Obs(w, tn, odn) ==
    [Well |-> w, Time_s |-> Rat(tn, 1), Time_h |-> time_h(Rat(tn, 1)),
     OD |-> Rat(odn, 10), src_sheet |-> 0, src_row |-> 0, src_col |-> 0]

ObsPool ==
    {Obs(WellA1, 0, 1), Obs(WellA1, 3600, 2), Obs(WellA2, 0, 3), Obs(WellB1, 0, 4)}

DirectTables == SeqsUpTo(ObsPool, MaxObs) \ {<<>>}

\* ------------------------------------------------------------- load_mapping

InColumns(df, c) == \E k \in 1..Len(df.columns) : df.columns[k] = c

\* 'Well' in columns and 'Condition' in columns
HasRequiredColumns(df) == InColumns(df, "Well") /\ InColumns(df, "Condition")

\* Variant: the mapping is loaded without the check of its columns.
LoadMappingUnchecked ==
    /\ pc = "start"
    /\ pc' = "process"
    /\ mapping_df' = map_file
    /\ UNCHANGED <<kind, map_file, unmapped, lines, sheets, sheet_idx, time_values,
                   i, all_data, cycle_count, current_cycle_data, current_time,
                   data_df, output>>

\* main, line 364: load_mapping; sys.exit(1) when a required column is missing.
LoadMapping ==
    /\ pc = "start"
    /\ IF map_file.some /\ ~HasRequiredColumns(map_file.df)
       THEN pc' = "fatal" /\ mapping_df' = mapping_df
       ELSE pc' = "process" /\ mapping_df' = map_file
    /\ UNCHANGED <<kind, map_file, unmapped, lines, sheets, sheet_idx, time_values,
                   i, all_data, cycle_count, current_cycle_data, current_time,
                   data_df, output>>

\* ---------------------------------------------------- merge_with_conditions

RECURSIVE SelectSeq2(_, _, _)
SelectSeq2(q, w, k) ==
    IF k > Len(q) THEN <<>>
    ELSE (IF q[k].Well = w THEN <<q[k]>> ELSE <<>>) \o SelectSeq2(q, w, k + 1)

\* The rows of q whose Well is w, in order.
Matches(q, w) == SelectSeq2(q, w, 1)

\* Column c of the left frame in the merged frame: pandas suffixes a
\* non-key column present on both sides.
LeftName(c, overlap) == IF overlap /\ c = "Condition" THEN "Condition_x" ELSE c

\* One merged row: the left row's values and the right row's condition.
MergedRow(left_cols, row, cond, overlap) ==
    LET cond_col == IF overlap THEN "Condition_y" ELSE "Condition"
        names == {LeftName(left_cols[k], overlap) : k \in 1..Len(left_cols)}
    IN  [c \in names \cup {cond_col} |->
            IF c = cond_col THEN cond
            ELSE IF c = "Condition_x" THEN row["Condition"]
            ELSE row[c]]

\* Variant: an inner join, a row without match is dropped.
JoinRowInner(left_cols, row, right_rows, overlap) ==
    LET ms == Matches(right_rows, row.Well)
    IN  [k \in 1..Len(ms) |-> MergedRow(left_cols, row, ms[k].Condition, overlap)]

\* The merged rows of one left row: one per matching right row, or one with
\* an absent condition.
JoinRow(left_cols, row, right_rows, overlap) ==
    LET ms == Matches(right_rows, row.Well)
    IN  IF ms = <<>> THEN <<MergedRow(left_cols, row, NaN, overlap)>>
        ELSE [k \in 1..Len(ms) |-> MergedRow(left_cols, row, ms[k].Condition, overlap)]

RECURSIVE JoinRows(_, _, _, _)
JoinRows(left_cols, rows, right_rows, overlap) ==
    IF rows = <<>> THEN <<>>
    ELSE JoinRow(left_cols, Head(rows), right_rows, overlap)
           \o JoinRows(left_cols, Tail(rows), right_rows, overlap)

\* pd.merge(data_df, mapping_df[['Well', 'Condition']], on='Well', how='left')
LeftMerge(df, mapping) ==
    LET overlap == InColumns(df, "Condition")
    IN  [columns |-> [k \in 1..Len(df.columns) |-> LeftName(df.columns[k], overlap)]
                       \o <<IF overlap THEN "Condition_y" ELSE "Condition">>,
         rows    |-> JoinRows(df.columns, df.rows, mapping.rows, overlap)]

\* merged_df[merged_df['Condition'].isna()]['Well'].unique()
RECURSIVE UniqueUnmapped(_, _)
UniqueUnmapped(rows, seen) ==
    IF rows = <<>> THEN <<>>
    ELSE LET r == Head(rows)
         IN  IF r["Condition"] = NaN /\ r["Well"] \notin seen
             THEN <<r["Well"]>> \o UniqueUnmapped(Tail(rows), seen \cup {r["Well"]})
             ELSE UniqueUnmapped(Tail(rows), seen)

RECURSIVE AllUnmapped(_)
AllUnmapped(rows) ==
    IF rows = <<>> THEN <<>>
    ELSE (IF Head(rows)["Condition"] = NaN THEN <<Head(rows)["Well"]>> ELSE <<>>)
         \o AllUnmapped(Tail(rows))

\* Variant: the wells of the warning are not deduplicated.
MergeWithConditionsNoUnique(df, mapping) ==
    IF ~HasRequiredColumns(mapping) \/ ~InColumns(df, "Well")
    THEN [status |-> "KeyError", df |-> df, unmapped |-> <<>>]
    ELSE LET merged_df == LeftMerge(df, mapping)
         IN  IF ~InColumns(merged_df, "Condition")
             THEN [status |-> "KeyError", df |-> df, unmapped |-> <<>>]
             ELSE [status |-> "ok", df |-> merged_df,
                   unmapped |-> AllUnmapped(merged_df.rows)]

\* merge_with_conditions for a mapping that is not None: status "KeyError"
\* when a column the code selects does not exist.
MergeWithConditions(df, mapping) ==
    IF ~HasRequiredColumns(mapping) \/ ~InColumns(df, "Well")
    THEN [status |-> "KeyError", df |-> df, unmapped |-> <<>>]
    ELSE LET merged_df == LeftMerge(df, mapping)
         IN  IF ~InColumns(merged_df, "Condition")
             THEN [status |-> "KeyError", df |-> df, unmapped |-> <<>>]
             ELSE [status |-> "ok", df |-> merged_df,
                   unmapped |-> UniqueUnmapped(merged_df.rows, {})]

\* ---------------------------------------------------------------------- main

\* main, lines 375-377: neither .csv nor .xlsx/.xls.
UnsupportedFormat ==
    /\ pc = "process"
    /\ kind = "other"
    /\ pc' = "fatal"
    /\ UNCHANGED <<kind, map_file, mapping_df, unmapped, lines, sheets, sheet_idx,
                   time_values, i, all_data, cycle_count, current_cycle_data,
                   current_time, data_df, output>>

\* main, lines 379-385: the empty check, then the choice of merging.
CheckData ==
    /\ pc = "parsed"
    /\ pc' = IF data_df.rows = <<>> THEN "fatal"
             ELSE IF mapping_df.some THEN "merge" ELSE "write"
    /\ UNCHANGED <<kind, map_file, mapping_df, unmapped, lines, sheets, sheet_idx,
                   time_values, i, all_data, cycle_count, current_cycle_data,
                   current_time, data_df, output>>

\* main, lines 385-387: data_df = merge_with_conditions(data_df, mapping_df);
\* an exception of the merge ends the run.
MergeConditions ==
    /\ pc = "merge"
    /\ LET r == MergeWithConditions(data_df, mapping_df.df)
       IN  /\ pc' = IF r.status = "ok" THEN "write" ELSE "error"
           /\ data_df' = r.df
           /\ unmapped' = r.unmapped
    /\ UNCHANGED <<kind, map_file, mapping_df, lines, sheets, sheet_idx,
                   time_values, i, all_data, cycle_count, current_cycle_data,
                   current_time, output>>

\* main, line 390: data_df.to_csv(args.output_file, index=False)
WriteOutput ==
    /\ pc = "write"
    /\ pc' = "done"
    /\ output' = <<data_df>>
    /\ UNCHANGED <<kind, map_file, mapping_df, unmapped, lines, sheets, sheet_idx,
                   time_values, i, all_data, cycle_count, current_cycle_data,
                   current_time, data_df>>

\* merge_with_conditions applied to its own result with the same mapping.
Reannotate ==
    /\ pc = "write"
    /\ LET r == MergeWithConditions(data_df, mapping_df.df)
       IN  /\ pc' = IF r.status = "ok" THEN "reannotated" ELSE "error"
           /\ data_df' = r.df
           /\ unmapped' = r.unmapped
    /\ UNCHANGED <<kind, map_file, mapping_df, lines, sheets, sheet_idx,
                   time_values, i, all_data, cycle_count, current_cycle_data,
                   current_time, output>>

\* ---------------------------------------------------------- specifications

ScanStart ==
    /\ sheet_idx = 1
    /\ time_values = <<>>
    /\ i = 1
    /\ all_data = <<>>
    /\ cycle_count = 0
    /\ current_cycle_data = <<>>
    /\ current_time = None
    /\ data_df = EmptyFrame
    /\ output = <<>>
    /\ unmapped = <<>>

MainTexts == SeqsUpTo({LineT0, LineA, LineB}, MaxLines) \cup {ScenarioFile}

MainWorkbooks == {<<a, b>> : a \in SmallSheets, b \in SmallSheets}

\* main after parse_args and the file-existence checks.
Init ==
    /\ pc = "start"
    /\ map_file \in MainMapFiles
    /\ mapping_df = NoFrame
    /\ \/ kind = "csv" /\ lines \in MainTexts /\ sheets = <<>>
       \/ kind = "excel" /\ lines = <<>> /\ sheets \in MainWorkbooks
       \/ kind = "other" /\ lines = <<>> /\ sheets = <<>>
    /\ ScanStart

Next ==
    \/ LoadMapping
    \/ UnsupportedFormat
    \/ ExtractTimeValues
    \/ CsvScanLine
    \/ CsvFinish
    \/ OpenExcel
    \/ ExcelSheet
    \/ ExcelFinish
    \/ CheckData
    \/ MergeConditions
    \/ WriteOutput

Spec == Init /\ [][Next]_vars

\* The two parsers on the enumerated inputs, without a mapping.
InitParse ==
    /\ pc = "start"
    /\ map_file = NoFrame
    /\ mapping_df = NoFrame
    /\ \/ kind = "csv" /\ lines \in TextInputs /\ sheets = <<>>
       \/ kind = "excel" /\ lines = <<>> /\ sheets \in Workbooks
    /\ ScanStart

NextParse ==
    \/ LoadMapping
    \/ ExtractTimeValues
    \/ CsvScanLine
    \/ CsvFinish
    \/ OpenExcel
    \/ ExcelSheet
    \/ ExcelFinish
    \/ CheckData
    \/ WriteOutput

SpecParse == InitParse /\ [][NextParse]_vars

\* merge_with_conditions on enumerated tables and mappings: the call of
\* main, then a second application to the result.
InitMerge ==
    /\ pc = "merge"
    /\ kind = "csv"
    /\ lines = <<>>
    /\ sheets = <<>>
    /\ mapping_df \in {SomeFrame(m) : m \in DirectMappings}
    /\ map_file = mapping_df
    /\ sheet_idx = 1
    /\ time_values = <<>>
    /\ i = 1
    /\ all_data \in DirectTables
    /\ cycle_count = 0
    /\ current_cycle_data = <<>>
    /\ current_time = None
    /\ data_df = DataFrame(all_data)
    /\ output = <<>>
    /\ unmapped = <<>>

NextMerge ==
    \/ MergeConditions
    \/ Reannotate

SpecMerge == InitMerge /\ [][NextMerge]_vars


\* ------------------------------------------------- vocabulary of the claims

\* The parser has returned its observation list to main.
ParserReturned == pc \in {"parsed", "merge", "write", "done"}

\* The last index in S, a non-empty set of integers.
Last(S) == CHOOSE m \in S : \A q \in S : q <= m

\* Text path: the time lines before line r.
MarkersBefore(ls, r) == {m \in 1..(r - 1) : IsTimeLine(ls[m])}

\* Text path: the time line ls[m] carries a time float() accepts.
ResolvedLine(line) == HasTimeCell(line) /\ LineTime(line) # None

\* Spreadsheet path: the time rows before row r.
XMarkersBefore(df, r) == {m \in 1..(r - 1) : IsTimeRow(df[m])}

\* Where an observation was read from lies in a block that has a time:
\* the nearest time marker before its row is a resolved one.
InResolvedBlock(o) ==
    IF kind = "csv"
    THEN LET ms == MarkersBefore(lines, o.src_row)
         IN  ms # {} /\ ResolvedLine(lines[Last(ms)])
    ELSE LET df == sheets[o.src_sheet]
             ms == XMarkersBefore(df, o.src_row)
         IN  ms # {} /\ HasCellTime(df[Last(ms)])

\* C1: (both paths) no observation is read from a data row that lies after a
\* time marker whose time is Missing and before the next marker with a time:
\* the nearest time marker before the row of every observation has a time.
C1_NoObservationInUnresolvedBlock ==
    \A k \in 1..Len(all_data) : InResolvedBlock(all_data[k])

\* The (Well, Time_s, OD) triples of a list of observations.
Triples(obs) == [k \in 1..Len(obs) |-> <<obs[k].Well, obs[k].Time_s, obs[k].OD>>]

ScenarioExpected ==
    <<<<WellA1, Rat(0, 1), Rat(1, 10)>>,
      <<WellA2, Rat(0, 1), Rat(2, 10)>>,
      <<WellB1, Rat(0, 1), Rat(3, 10)>>,
      <<WellA1, Rat(3600, 1), Rat(15, 100)>>,
      <<WellA2, Rat(3600, 1), Rat(25, 100)>>>>

\* Position (r1, c1) comes before (r2, c2) in row-then-column scan order.
ScanBefore(a, b) ==
    a.src_row < b.src_row \/ (a.src_row = b.src_row /\ a.src_col < b.src_col)

\* C2: (text path) the observations lie in input order: by the row they were
\* read from (hence by cycle, a cycle's rows lying between its marker and the
\* next), then by ascending column; and the scenario input of section 8 gives
\* exactly its five rows, in that order.
C2_ScanOrder ==
    kind = "csv" =>
        /\ \A k \in 1..Len(all_data) : \A l \in 1..Len(all_data) :
               k < l =>
                 /\ ScanBefore(all_data[k], all_data[l])
                 /\ Last(MarkersBefore(lines, all_data[k].src_row))
                      <= Last(MarkersBefore(lines, all_data[l].src_row))
        /\ lines = ScenarioFile =>
               /\ pc # "fatal"
               /\ ParserReturned => Triples(all_data) = ScenarioExpected

C2_Witness ==
    /\ pc = "done"
    /\ lines = ScenarioFile
    /\ Len(all_data) = 5
    /\ \A k \in 1..Len(all_data) : all_data[k].Well # <<"B", "2">>

\* The 96 well names, written out.
WellSpace ==
    {<<l, d>> : l \in RowLetters, d \in {"1", "2", "3", "4", "5", "6", "7", "8", "9"}}
      \cup {<<l, "1", d>> : l \in RowLetters, d \in {"0", "1", "2"}}

\* The first cell of the row an observation was read from (trimmed in the
\* spreadsheet path) and the value float() gives for the cell it names.
SourceLetter(o) ==
    IF kind = "csv" THEN Split(lines[o.src_row])[1]
    ELSE Strip(sheets[o.src_sheet][o.src_row][1].s)

SourceValue(o) ==
    IF kind = "csv" THEN ParseFloat(Split(Strip(lines[o.src_row]))[o.src_col + 1])
    ELSE CellFloat(sheets[o.src_sheet][o.src_row][o.src_col + 1])

\* C3: (both paths) every observation's Well is a letter A..H followed by a
\* number 1..12 without leading zero; the letter is the first cell of the row
\* and the number the 1-based offset of the cell the OD was read from.
C3_WellInPlate ==
    \A k \in 1..Len(all_data) :
        LET o == all_data[k]
        IN  /\ o.Well \in WellSpace
            /\ <<o.Well[1]>> = SourceLetter(o)
            /\ DigitsValue(Tail(o.Well), 0) = o.src_col
            /\ o.OD = SourceValue(o)

C3_Witness ==
    /\ pc = "done"
    /\ Len(all_data) = 12
    /\ all_data[12].Well = <<"H", "1", "2">>
    /\ \/ kind = "csv" /\ Len(Split(lines[all_data[12].src_row])) > 13
       \/ kind = "excel" /\ Width(sheets[1]) > 13

\* Tokens float() rejects.
BadTokens == {<<"a", "b", "c">>, <<>>}

RECURSIVE Join(_)
Join(parts) ==
    IF Len(parts) = 1 THEN parts[1] ELSE Head(parts) \o <<",">> \o Join(Tail(parts))

\* The text input with the token of value cell c of line r replaced by tok
\* (the line's final newline is kept).
ReplaceCell(ls, r, c, tok) ==
    LET parts == Split(ls[r])
        last  == c + 1 = Len(parts) /\ ls[r][Len(ls[r])] = "\n"
        cell  == IF last THEN tok \o Nl ELSE tok
    IN  [ls EXCEPT ![r] = Join([parts EXCEPT ![c + 1] = cell])]

RECURSIVE Without(_, _, _)
Without(obs, r, c) ==
    IF obs = <<>> THEN <<>>
    ELSE (IF Head(obs).src_row = r /\ Head(obs).src_col = c THEN <<>> ELSE <<Head(obs)>>)
         \o Without(Tail(obs), r, c)

\* C4 as stated: (text path) replacing the parseable token behind any one
\* observation by a malformed token removes exactly that observation, and the
\* run does not abort.
C4_Original ==
    (kind = "csv" /\ pc = "done") =>
        \A k \in 1..Len(all_data) : \A tok \in BadTokens :
            LET o == all_data[k]
                run == ProcessCsvData(ReplaceCell(lines, o.src_row, o.src_col, tok))
            IN  /\ run.all_data = Without(all_data, o.src_row, o.src_col)
                /\ Len(run.all_data) = Len(all_data) - 1
                /\ run.status = "ok"

\* C4 amended: the replacement removes exactly that observation and nothing
\* else; the run aborts (the fatal 'no valid data' exit) exactly when that
\* observation was the only one of the input, and not otherwise.
C4_MalformedTokenRemovesOne ==
    (kind = "csv" /\ pc = "done") =>
        \A k \in 1..Len(all_data) : \A tok \in BadTokens :
            LET o == all_data[k]
                run == ProcessCsvData(ReplaceCell(lines, o.src_row, o.src_col, tok))
            IN  /\ run.all_data = Without(all_data, o.src_row, o.src_col)
                /\ Len(run.all_data) = Len(all_data) - 1
                /\ run.status = (IF Len(all_data) = 1 THEN "exit" ELSE "ok")

C4_Witness ==
    /\ kind = "csv"
    /\ pc = "done"
    /\ lines = ScenarioFile
    /\ LET run == ProcessCsvData(ReplaceCell(lines, 2, 1, <<"a", "b", "c">>))
       IN  /\ run.status = "ok"
           /\ Triples(run.all_data) = Tail(ScenarioExpected)

\* Text path: the resolved time markers that are followed by another time
\* marker with no data row in between.
EmptyCycles(ls) ==
    {m \in 1..Len(ls) :
        /\ IsTimeLine(ls[m]) /\ ResolvedLine(ls[m])
        /\ \E n \in (m + 1)..Len(ls) :
              /\ IsTimeLine(ls[n])
              /\ \A r \in (m + 1)..(n - 1) : ~IsTimeLine(ls[r]) /\ ~MatchDataRow(ls[r])}

\* Text path: no other resolved marker carries the time of marker m.
OwnTime(ls, m) ==
    \A q \in 1..Len(ls) :
        (q # m /\ IsTimeLine(ls[q]) /\ ResolvedLine(ls[q])) => LineTime(ls[q]) # LineTime(ls[m])

\* Spreadsheet path: the same for the rows of one sheet.
XEmptyCycles(df) ==
    {m \in 1..Len(df) :
        /\ IsTimeRow(df[m]) /\ HasCellTime(df[m])
        /\ \E n \in (m + 1)..Len(df) :
              /\ IsTimeRow(df[n])
              /\ \A r \in (m + 1)..(n - 1) : ~IsTimeRow(df[r]) /\ ~IsGridRow(df[r])}

XOwnTime(df, m) ==
    \A q \in 1..Len(df) :
        (q # m /\ IsTimeRow(df[q]) /\ HasCellTime(df[q]))
            => CellFloat(df[q][2]) # CellFloat(df[m][2])

\* C5: (both paths) a time marker with a time, followed by no data row before
\* the next time marker, yields no observation carrying its time (stated for
\* a marker whose time no other marker of the input carries), and the run
\* does not end in an exception.
C5_EmptyCycleYieldsNothing ==
    /\ pc # "error"
    /\ kind = "csv" =>
          \A m \in EmptyCycles(lines) :
              OwnTime(lines, m) =>
                  \A k \in 1..Len(all_data) : all_data[k].Time_s # LineTime(lines[m])
    /\ (kind = "excel" /\ Len(sheets) = 1) =>
          \A m \in XEmptyCycles(sheets[1]) :
              XOwnTime(sheets[1], m) =>
                  \A k \in 1..Len(all_data) :
                      all_data[k].Time_s # CellFloat(sheets[1][m][2])

\* Text path: the first comma-separated cell of the line, trimmed, is one
\* letter A..H.
TrimmedRowLetter(line) ==
    LET c == Strip(Split(line)[1]) IN Len(c) = 1 /\ c[1] \in RowLetters

\* Text path: line r follows a time marker, and every marker before it has a
\* time.
AfterResolvedMarkers(ls, r) ==
    /\ MarkersBefore(ls, r) # {}
    /\ \A m \in MarkersBefore(ls, r) : ResolvedLine(ls[m])

\* C6: (text path) a row is a data row exactly when its first cell, trimmed,
\* is one letter A..H: every observation is read from such a row, and such a
\* row after a time marker with a time yields an observation for each of its
\* first 12 value cells that holds a number.
C6_TrimmedFirstCellDecides ==
    (kind = "csv" /\ ParserReturned) =>
        /\ \A k \in 1..Len(all_data) : TrimmedRowLetter(lines[all_data[k].src_row])
        /\ \A r \in 1..Len(lines) :
              (TrimmedRowLetter(lines[r]) /\ AfterResolvedMarkers(lines, r)) =>
                  LET parts == Split(Strip(lines[r]))
                  IN  \A c \in 1..Min(12, Len(parts) - 1) :
                          ParseFloat(parts[c + 1]) # None =>
                              \E k \in 1..Len(all_data) :
                                  /\ all_data[k].src_row = r
                                  /\ all_data[k].src_col = c
                                  /\ all_data[k].OD = ParseFloat(parts[c + 1])

\* The input holds a time marker (a row the scanner takes as one).
InputHasTimeMarker ==
    IF kind = "csv" THEN \E r \in 1..Len(lines) : IsTimeLine(lines[r])
    ELSE \E sh \in 1..Len(sheets) : \E r \in 1..Len(sheets[sh]) : IsTimeRow(sheets[sh][r])

\* The run has ended: no step of main is left.
Stopped == pc \in {"done", "fatal", "error"}

\* C7: (main) the table is written only after the parser has returned a
\* non-empty observation list; a run on an input without time marker, or
\* from which nothing is extracted, never gets past the parser, writes
\* nothing, and has ended in the fatal state when it has stopped.
C7_WriteOnlyAfterData ==
    /\ output # <<>> => (pc = "done" /\ all_data # <<>> /\ output[1].rows # <<>>)
    /\ ParserReturned => (all_data # <<>> /\ InputHasTimeMarker)
    /\ (~InputHasTimeMarker \/ all_data = <<>>) =>
          /\ output = <<>>
          /\ Stopped => pc = "fatal"

C7_Witness ==
    /\ pc = "fatal"
    /\ kind = "csv"
    /\ InputHasTimeMarker
    /\ \E r \in 1..Len(lines) : MatchDataRow(lines[r])
    /\ i > Len(lines)
    /\ all_data = <<>>
    /\ output = <<>>

\* The mapping holds at most one entry per well.
UniqueWells(mapping) ==
    \A a \in 1..Len(mapping.rows) : \A b \in 1..Len(mapping.rows) :
        mapping.rows[a].Well = mapping.rows[b].Well => a = b

\* The condition the mapping gives a well: its entry's, or absent.
ConditionOf(mapping, w) ==
    IF \E a \in 1..Len(mapping.rows) : mapping.rows[a].Well = w
    THEN mapping.rows[CHOOSE a \in 1..Len(mapping.rows) : mapping.rows[a].Well = w].Condition
    ELSE NaN

\* C8: (merge_with_conditions, mapping with unique wells) the result holds
\* the table's rows, in order, each with Well, Time_s, Time_h and OD unchanged
\* and with the condition of its well's entry, or an absent condition when the
\* well has no entry; an entry for a well not in the table adds no row.
C8_LeftJoin ==
    (pc = "write" /\ UniqueWells(mapping_df.df)) =>
        /\ Len(data_df.rows) = Len(all_data)
        /\ data_df.columns = <<"Well", "Time_s", "Time_h", "OD", "Condition">>
        /\ \A k \in 1..Len(data_df.rows) :
              /\ data_df.rows[k] =
                    [Well |-> all_data[k].Well, Time_s |-> all_data[k].Time_s,
                     Time_h |-> all_data[k].Time_h, OD |-> all_data[k].OD,
                     Condition |-> ConditionOf(mapping_df.df, all_data[k].Well)]

C8_Witness ==
    /\ pc = "write"
    /\ UniqueWells(mapping_df.df)
    /\ Len(data_df.rows) = 2
    /\ data_df.rows[1]["Condition"] = "ctl"
    /\ data_df.rows[2]["Condition"] = NaN
    /\ \E a \in 1..Len(mapping_df.df.rows) : mapping_df.df.rows[a].Well = WellC1

\* C9: (merge_with_conditions applied again to its result, same mapping) the
\* second application completes without error and yields the rows and the
\* Condition values of the first.
C9_Idempotent ==
    /\ pc # "error"
    /\ pc = "reannotated" =>
          LET first == MergeWithConditions(DataFrame(all_data), mapping_df.df).df
          IN  /\ Len(data_df.rows) = Len(first.rows)
              /\ \A k \in 1..Len(first.rows) :
                    /\ data_df.rows[k]["Well"] = first.rows[k]["Well"]
                    /\ data_df.rows[k]["Condition"] = first.rows[k]["Condition"]

\* Nothing of the input has been scanned.
NothingScanned ==
    /\ time_values = <<>>
    /\ i = 1
    /\ sheet_idx = 1
    /\ all_data = <<>>
    /\ cycle_count = 0
    /\ current_cycle_data = <<>>
    /\ data_df = EmptyFrame

\* C10: (main) a mapping without the Well or the Condition field is rejected
\* before any input row is scanned: the run is at its start or in the fatal
\* state, with nothing scanned, no row produced and nothing written; and
\* whenever the parser has started, the mapping has been loaded and validated.
C10_MappingValidatedFirst ==
    /\ (map_file.some /\ ~HasRequiredColumns(map_file.df)) =>
          (pc \in {"start", "fatal"} /\ NothingScanned /\ output = <<>>)
    /\ pc \notin {"start", "fatal"} =>
          (mapping_df = map_file /\ (map_file.some => HasRequiredColumns(map_file.df)))

C10_Witness ==
    /\ pc = "fatal"
    /\ map_file = SomeFrame(MapNoCondition)
    /\ kind = "csv"
    /\ lines = ScenarioFile
    /\ NothingScanned
    /\ output = <<>>

\* The wells of the table given to the merge.
TableWells == {all_data[k].Well : k \in 1..Len(all_data)}

\* The mapping's entries for well w.
EntriesFor(mapping, w) == {a \in 1..Len(mapping.rows) : mapping.rows[a].Well = w}

\* No element occurs twice in the sequence q.
NoRepeats(q) == \A a \in 1..Len(q) : \A b \in 1..Len(q) : q[a] = q[b] => a = b

Range(q) == {q[k] : k \in 1..Len(q)}

\* C11 as stated: (merge_with_conditions) the wells of the unmapped-wells
\* warning are exactly the distinct wells of the table that have no mapping
\* entry, each once; none is listed (no warning) when every well has one.
C11_Original ==
    pc = "write" =>
        /\ Range(unmapped) = {w \in TableWells : EntriesFor(mapping_df.df, w) = {}}
        /\ NoRepeats(unmapped)

\* C11 amended: the wells of the warning are exactly the distinct wells of
\* the table whose condition is absent after the join: those without mapping
\* entry and those with an entry whose Condition is empty; each is listed
\* once, and there is no warning when there is no such well.
C11_UnmappedWells ==
    pc = "write" =>
        /\ Range(unmapped) =
              {w \in TableWells :
                  \/ EntriesFor(mapping_df.df, w) = {}
                  \/ \E a \in EntriesFor(mapping_df.df, w) :
                        mapping_df.df.rows[a].Condition = NaN}
        /\ NoRepeats(unmapped)

C11_Witness ==
    /\ pc = "write"
    /\ Len(all_data) = 2
    /\ all_data[1].Well = WellA1
    /\ all_data[2].Well = WellA1
    /\ EntriesFor(mapping_df.df, WellA1) = {}
    /\ Len(mapping_df.df.rows) > 0
    /\ unmapped = <<WellA1>>

\* Text path: the cells 1..12 of a row that hold a number.
ParseableCells(line) ==
    LET parts == Split(Strip(line))
    IN  {c \in 1..Min(12, Len(parts) - 1) : ParseFloat(parts[c + 1]) # None}

\* Text path: the row letter of a data row.
RowLetterOf(line) == Strip(Split(line)[1])[1]

\* Text path: one time marker with a time, followed by data rows only, each
\* row letter at most once.
SingleBlock(ls) ==
    /\ Len(ls) >= 2
    /\ IsTimeLine(ls[1]) /\ ResolvedLine(ls[1])
    /\ \A r \in 2..Len(ls) : TrimmedRowLetter(ls[r])
    /\ \A r \in 2..Len(ls) : \A q \in 2..Len(ls) :
          RowLetterOf(ls[r]) = RowLetterOf(ls[q]) => r = q

\* The wells the rows 2.. of a single block hold with a number: (row, cell).
BlockWells(ls) == {<<r, c>> \in (2..Len(ls)) \X (1..12) : c \in ParseableCells(ls[r])}

\* C12: (text path) on one time marker with a time followed by data rows
\* that hold N distinct wells with a number, process_csv_data returns exactly
\* N observations, and their Well values are pairwise distinct.
C12_SingleBlockCount ==
    (kind = "csv" /\ SingleBlock(lines) /\ BlockWells(lines) # {}
        /\ (ParserReturned \/ pc = "fatal")) =>
        /\ ParserReturned
        /\ Len(all_data) = Cardinality(BlockWells(lines))
        /\ \A a \in 1..Len(all_data) : \A b \in 1..Len(all_data) :
              all_data[a].Well = all_data[b].Well => a = b

\* Text path: the time the scanner holds when it reads line r: that of the
\* last time line before r whose second cell is non-blank.
TimeAt(ls, r) ==
    LET ms == {m \in MarkersBefore(ls, r) : HasTimeCell(ls[m])}
    IN  IF ms = {} THEN None ELSE LineTime(ls[Last(ms)])

\* Text path: the populated wells of the emitted blocks, as (row, cell).
EmittedCells(ls) ==
    {<<r, c>> \in (1..Len(ls)) \X (1..12) :
        /\ MatchDataRow(ls[r])
        /\ TimeAt(ls, r) # None
        /\ c \in ParseableCells(ls[r])}

\* The observations of the table with time t.
RowsAt(t) == {k \in 1..Len(all_data) : all_data[k].Time_s = t}

\* C13: (text path) no deduplication: the number of observations returned is
\* the sum over the emitted blocks of their populated wells, also when two
\* blocks carry the same well and time; two cycles at 0 s and 3600 s with the
\* same 4 populated wells give exactly 8 rows, 4 per time.
C13_NoDeduplication ==
    (kind = "csv" /\ ParserReturned) =>
        /\ Len(all_data) = Cardinality(EmittedCells(lines))
        /\ lines = EightFile =>
              /\ Len(all_data) = 8
              /\ Cardinality(RowsAt(Rat(0, 1))) = 4
              /\ Cardinality(RowsAt(Rat(3600, 1))) = 4
        /\ lines = SameTimeFile => Len(all_data) = 4

C13_Witness ==
    /\ kind = "csv" /\ pc = "done"
    /\ lines = SameTimeFile
    /\ Len(all_data) = 4
    /\ Triples(all_data)[1] = Triples(all_data)[3]
    /\ Triples(all_data)[2] = Triples(all_data)[4]

\* The time markers with a time that an observation of either path can have
\* been collected under: the times the scanner can hold at its row.
BlockTimes(o) ==
    IF kind = "csv" THEN {TimeAt(lines, o.src_row)}
    ELSE LET df == sheets[o.src_sheet]
         IN  {CellFloat(df[m][2]) : m \in {q \in CycleStarts(df) : q < o.src_row}}

\* C14: (both paths) every observation's Time_h is its Time_s / 3600, and
\* its Time_s is the time of the block it was extracted from; Time_s = 0
\* gives Time_h = 0 and Time_s = 3600 gives Time_h = 1.
C14_HoursFromSeconds ==
    \A k \in 1..Len(all_data) :
        LET o == all_data[k]
        IN  /\ o.Time_s # None /\ o.Time_h # None
            /\ o.Time_h.n * 3600 * o.Time_s.d = o.Time_s.n * o.Time_h.d
            /\ o.Time_s \in BlockTimes(o)
            /\ o.Time_s = [n |-> 0, d |-> 1] => o.Time_h = [n |-> 0, d |-> 1]
            /\ o.Time_s = [n |-> 3600, d |-> 1] => o.Time_h = [n |-> 1, d |-> 1]

C14_Witness ==
    /\ pc = "done"
    /\ \E k \in 1..Len(all_data) :
          all_data[k].Time_s = [n |-> 0, d |-> 1] /\ all_data[k].Time_h = [n |-> 0, d |-> 1]
    /\ \E k \in 1..Len(all_data) :
          all_data[k].Time_s = [n |-> 3600, d |-> 1] /\ all_data[k].Time_h = [n |-> 1, d |-> 1]

\* Text path: the time-marker rows of the input.
TimeLines(ls) == {r \in 1..Len(ls) : IsTimeLine(ls[r])}

\* C15: (text path) on a run that completes, the number of time points
\* extract_time_values reports and the cycle count process_csv_data reports
\* both equal the number of time-marker rows of the input, and the reported
\* number of observations is the number of observations returned.
C15_ReportedCounts ==
    (kind = "csv" /\ pc = "done") =>
        /\ Len(time_values) = Cardinality(TimeLines(lines))
        /\ cycle_count = Cardinality(TimeLines(lines))
        /\ Len(data_df.rows) = Len(all_data)

\* The condition of the first, and of the last, entry of the mapping for w.
FirstConditionOf(mapping, w) ==
    IF EntriesFor(mapping, w) = {} THEN NaN
    ELSE mapping.rows[CHOOSE a \in EntriesFor(mapping, w) :
                         \A b \in EntriesFor(mapping, w) : a <= b].Condition

LastConditionOf(mapping, w) ==
    IF EntriesFor(mapping, w) = {} THEN NaN
    ELSE mapping.rows[Last(EntriesFor(mapping, w))].Condition

\* C16: (merge_with_conditions, mapping with several entries for one well)
\* the result still has one row per observation row of the table, and each
\* row carries the condition of one fixed entry of its well: the first seen
\* for every row, or the last seen for every row.
C16_OneRowPerObservation ==
    (pc = "write" /\ ~UniqueWells(mapping_df.df)) =>
        /\ Len(data_df.rows) = Len(all_data)
        /\ \A k \in 1..Len(data_df.rows) :
              k <= Len(all_data) => data_df.rows[k].Well = all_data[k].Well
        /\ \/ \A k \in 1..Len(data_df.rows) :
                 data_df.rows[k].Condition =
                     FirstConditionOf(mapping_df.df, data_df.rows[k].Well)
           \/ \A k \in 1..Len(data_df.rows) :
                 data_df.rows[k].Condition =
                     LastConditionOf(mapping_df.df, data_df.rows[k].Well)

\* Spreadsheet path: the time markers with a time before row r of sheet df.
StartsBefore(df, r) == {q \in CycleStarts(df) : q < r}

\* C17: (spreadsheet path) each data row yields observations for one cycle
\* only, and every observation's Time_s is the time of the nearest time
\* marker with a time that precedes its row: the forward search and the
\* collection window of a cycle take no row that lies after the next marker.
C17_WindowStopsAtNextMarker ==
    kind = "excel" =>
        /\ \A k \in 1..Len(all_data) :
              LET o  == all_data[k]
                  df == sheets[o.src_sheet]
              IN  /\ StartsBefore(df, o.src_row) # {}
                  /\ o.Time_s = CellFloat(df[Last(StartsBefore(df, o.src_row))][2])
        /\ \A k \in 1..Len(all_data) : \A l \in 1..Len(all_data) :
              (/\ all_data[k].src_sheet = all_data[l].src_sheet
               /\ all_data[k].src_row = all_data[l].src_row
               /\ all_data[k].src_col = all_data[l].src_col) => k = l

\* Spreadsheet path: the sheets the loop has been through.
SheetsDone == IF pc \in {"start", "process"} THEN 0 ELSE sheet_idx - 1

\* What sheet s yields when it is the only sheet of the workbook.
AloneTriples(s) == Triples(SheetObservations(sheets[s], 1))

\* The concatenation of what the sheets 1..n yield alone.
RECURSIVE ConcatAlone(_)
ConcatAlone(n) == IF n = 0 THEN <<>> ELSE ConcatAlone(n - 1) \o AloneTriples(n)

\* C18: (spreadsheet path, several sheets) a sheet without time marker does
\* not end the run and does not change what the other sheets contribute:
\* the result is the concatenation, in sheet order, of what each sheet
\* yields when scanned alone; the run is fatal only when no sheet yields an
\* observation.
C18_SheetsIndependent ==
    kind = "excel" =>
        /\ Triples(all_data) = ConcatAlone(SheetsDone)
        /\ \A k \in 1..Len(all_data) : \A l \in 1..Len(all_data) :
              k < l => all_data[k].src_sheet <= all_data[l].src_sheet
        /\ (pc \in {"fatal", "parsed", "write", "done"}) => SheetsDone = Len(sheets)
        /\ pc = "fatal" => \A s \in 1..Len(sheets) : AloneTriples(s) = <<>>
        /\ ParserReturned => \E s \in 1..Len(sheets) : AloneTriples(s) # <<>>

C18_Witness ==
    /\ kind = "excel" /\ pc = "done"
    /\ Len(sheets) = 2
    /\ ~(\E r \in 1..Len(sheets[1]) : IsTimeRow(sheets[1][r]))
    /\ all_data # <<>>
    /\ \A k \in 1..Len(all_data) : all_data[k].src_sheet = 2
    /\ Triples(all_data) = AloneTriples(2)

\* C19: (text-path scanner, after every row processed) a non-empty block
\* accumulator implies a resolved current time, and every row in it was read
\* after the last time marker; so rows before the first time marker are
\* never accumulated nor emitted, and after a time marker has been processed
\* the accumulator is empty.
C19_AccumulatorInvariant ==
    kind = "csv" =>
        /\ pc = "csv_scan" =>
              /\ current_cycle_data # <<>> => current_time # None
              /\ \A k \in 1..Len(current_cycle_data) :
                    /\ current_cycle_data[k].idx < i
                    /\ MarkersBefore(lines, i) # {}
                    /\ current_cycle_data[k].idx > Last(MarkersBefore(lines, i))
                    /\ current_cycle_data[k].line = lines[current_cycle_data[k].idx]
              /\ (i > 1 /\ IsTimeLine(lines[i - 1])) => current_cycle_data = <<>>
        /\ \A k \in 1..Len(all_data) : MarkersBefore(lines, all_data[k].src_row) # {}

C19_Witness ==
    /\ kind = "csv" /\ pc = "csv_scan"
    /\ i = 4
    /\ MatchDataRow(lines[1])
    /\ IsTimeLine(lines[2])
    /\ Len(current_cycle_data) = 1
    /\ current_cycle_data[1].idx = 3
    /\ current_time # None

=============================================================================
